---------------------------- MODULE Spec2Model ----------------------------
(***************************************************************************)
(* Model of the boids simulation emitted by boids-singlefile-generator.py  *)
(* (structure-of-arrays agents, per-frame quadtree, flocking, shock        *)
(* effects, integration with wrap / bounce boundaries).                    *)
(*                                                                         *)
(* Numbers.  The JavaScript works on binary floating point.  Here every    *)
(* length is a fixed-point integer: SCALE units per pixel, and every       *)
(* arithmetic result is the exact real result truncated toward zero to     *)
(* that grid.  World sizes are powers of two, so halving a quadtree cell   *)
(* is exact (as it is for binary floats) until the cell is one unit wide;  *)
(* halving once more gives 0, the model's counterpart of a cell width      *)
(* falling below the resolution of the coordinates.  Times are integer     *)
(* milliseconds (the code multiplies by 0.001 and compares with 1.2 s).    *)
(***************************************************************************)
EXTENDS Integers, Sequences, FiniteSets, TLC

VARIABLES
  wrap,       \* CFG.wrap
  N,          \* CFG.count
  px, py,     \* positions, [0..N-1 -> Int]
  vx, vy,     \* velocities
  ax, ay,     \* accelerations
  effects,    \* sequence of [x, y, t, sign]; life is the constant Life
  mouseDown,
  qt,         \* the frame's quadtree: [path -> node], the root is <<>>
  ret,        \* return values of the top-level inserts made so far
  out,        \* result array of the last query
  qry,        \* arguments of the last query, <<>> when none
  spliced,    \* what effects.splice returned during the frame's effects loop
  dt,         \* the frame's clamped delta time, ms
  pc,         \* position inside frame(): idle, flock, shock, integrate
  steps,      \* frames started
  spawn,      \* CONFIG.spawn of the all-pairs variant: random, circle, grid
  BASE_HUE,   \* the seed of the page's pseudo-random generator
  run,        \* 1 for the first load of the page, 2 after it was loaded again
  firstRun    \* the agents at the start of each frame of the first load, and at its end

vars == <<wrap, N, px, py, vx, vy, ax, ay, effects, mouseDown,
          qt, ret, out, qry, spliced, dt, pc, steps, spawn, BASE_HUE, run, firstRun>>

---------------------------------------------------------------------------
(* Bounds of the model *)

QtCap == 2

NSim == 3

MaxSteps == 2

MaxEffects == 2

MaxEvtEffects == 1

MaxBndSteps == 4

MaxDetSteps == 2

APCount == 9

MaxAPSteps == 2

MaxPassEffects == 3

MaxPassSteps == 1

MaxClkSteps == 40

---------------------------------------------------------------------------
(* Representation and configuration *)

SCALE == 32

innerWidth == 512 * SCALE

innerHeight == 256 * SCALE

Vision == 60 * SCALE

Sep == 12 * SCALE

MaxSpeed == 3 * SCALE

\* maxForce 0.0625
MaxForce == SCALE \div 16

AlignW == 1

CohesionW == 1

SeparationW == 2

Life == 1200

DtClamp == 32

WrapMargin == 5 * SCALE

---------------------------------------------------------------------------
(* Arithmetic helpers *)

Min(a, b) == IF a < b THEN a ELSE b

Max(a, b) == IF a > b THEN a ELSE b

Abs(a) == IF a < 0 THEN -a ELSE a

Sgn(a) == IF a < 0 THEN -1 ELSE IF a > 0 THEN 1 ELSE 0

\* a / b truncated toward zero, b > 0
Quot(a, b) == Sgn(a) * (Abs(a) \div b)

RECURSIVE SqrtSearch(_, _, _)
SqrtSearch(n, lo, hi) ==
  IF lo >= hi THEN lo
  ELSE LET mid == (lo + hi + 1) \div 2
       IN IF mid * mid <= n THEN SqrtSearch(n, mid, hi)
          ELSE SqrtSearch(n, lo, mid - 1)

\* floor of the square root
ISqrt(n) == SqrtSearch(n, 0, Min(n, 46340))

hypot(dx, dy) == ISqrt(dx * dx + dy * dy)

Range(s) == {s[k] : k \in 1..Len(s)}

---------------------------------------------------------------------------
(* Quadtree *)

QTNode(x, y, w, h) ==
  [x |-> x, y |-> y, w |-> w, h |-> h, count |-> 0,
   idx |-> <<>>, ptsx |-> <<>>, ptsy |-> <<>>, divided |-> FALSE]

Quadtree(x, y, w, h) == (<<>> :> QTNode(x, y, w, h))

\* the child an (x, y) is routed to
childOf(node, x, y) ==
  (IF y < node.y + node.h \div 2 THEN 0 ELSE 2)
  + (IF x < node.x + node.w \div 2 THEN 0 ELSE 1)

outsideNode(node, x, y) ==
  x < node.x \/ y < node.y \/ x >= node.x + node.w \/ y >= node.y + node.h

RECURSIVE insert(_, _, _, _, _)
RECURSIVE reinsert(_, _, _)

clearNothing(t, p) == t

\* node.count = 0: the leaf storage is cleared (stale array contents are never read)
clearStorage(t, p) ==
  [t EXCEPT ![p].count = 0, ![p].idx = <<>>, ![p].ptsx = <<>>, ![p].ptsy = <<>>]

\* subdivide(node): four children, the stored points sent down, storage cleared
subdivide(t, p) ==
  LET node == t[p]
      hw == node.w \div 2
      hh == node.h \div 2
      t1 == [t EXCEPT ![p].divided = TRUE]
            @@ (Append(p, 0) :> QTNode(node.x, node.y, hw, hh))
            @@ (Append(p, 1) :> QTNode(node.x + hw, node.y, hw, hh))
            @@ (Append(p, 2) :> QTNode(node.x, node.y + hh, hw, hh))
            @@ (Append(p, 3) :> QTNode(node.x + hw, node.y + hh, hw, hh))
  IN clearStorage(reinsert(t1, p, 1), p)

\* the reinsertion loop of subdivide, from stored point k on; results discarded
reinsert(t, p, k) ==
  LET node == t[p]
  IN IF k > node.count THEN t
     ELSE reinsert(
            insert(t, node.idx[k], node.ptsx[k], node.ptsy[k],
                   Append(p, childOf(node, node.ptsx[k], node.ptsy[k]))).tree,
            p, k + 1)

\* insert(i, x, y, node): [tree, ok]
insert(t, i, x, y, p) ==
  LET node == t[p]
  IN IF outsideNode(node, x, y) THEN [tree |-> t, ok |-> FALSE]
     ELSE IF node.count < QtCap /\ ~node.divided
     THEN [tree |-> [t EXCEPT ![p].count = @ + 1,
                              ![p].idx = Append(@, i),
                              ![p].ptsx = Append(@, x),
                              ![p].ptsy = Append(@, y)],
           ok |-> TRUE]
     ELSE LET t1 == IF ~node.divided THEN subdivide(t, p) ELSE t
          IN insert(t1, i, x, y, Append(p, childOf(node, x, y)))

rejectsOnCircle(node, cx, cy, r) ==
  LET nx == Max(node.x, Min(cx, node.x + node.w))
      ny == Max(node.y, Min(cy, node.y + node.h))
      dist == (cx - nx) * (cx - nx) + (cy - ny) * (cy - ny)
  IN dist >= r * r

\* circle-rect quick reject
rejects(node, cx, cy, r) ==
  LET nx == Max(node.x, Min(cx, node.x + node.w))
      ny == Max(node.y, Min(cy, node.y + node.h))
      dist == (cx - nx) * (cx - nx) + (cy - ny) * (cy - ny)
  IN dist > r * r

RECURSIVE queryNode(_, _, _, _, _, _)
\* _queryNode(node, cx, cy, r, out): out with the hits appended
queryNode(t, p, cx, cy, r, o) ==
  LET node == t[p]
  IN IF rejects(node, cx, cy, r) THEN o
     ELSE IF ~node.divided THEN o \o SubSeq(node.idx, 1, node.count)
     ELSE queryNode(t, Append(p, 3), cx, cy, r,
            queryNode(t, Append(p, 2), cx, cy, r,
              queryNode(t, Append(p, 1), cx, cy, r,
                queryNode(t, Append(p, 0), cx, cy, r, o))))

query(t, cx, cy, r) == queryNode(t, <<>>, cx, cy, r, <<>>)

RECURSIVE buildFrom(_, _, _, _, _)
\* for (i = from; i < n; i++) qt.insert(i, px[i], py[i]) : [tree, ret]
buildFrom(t, r, i, xs, ys) ==
  IF i \notin DOMAIN xs THEN [tree |-> t, ret |-> r]
  ELSE LET res == insert(t, i, xs[i], ys[i], <<>>)
       IN buildFrom(res.tree, Append(r, res.ok), i + 1, xs, ys)

buildQuadtree(xs, ys) ==
  buildFrom(Quadtree(0, 0, innerWidth, innerHeight), <<>>, 0, xs, ys)

---------------------------------------------------------------------------
(* Physics helpers *)

\* v * max / sqrt(m2), for m2 the squared length of the vector v belongs to
scaleTo(v, m2, max) == Sgn(v) * ISqrt((v * v * max * max) \div m2)

limitNone(x, y, max) == <<x, y>>

\* limit(vx, vy, max)
limit(x, y, max) ==
  LET m2 == x * x + y * y
  IN IF m2 > max * max THEN <<scaleTo(x, m2, max), scaleTo(y, m2, max)>>
     ELSE <<x, y>>

\* initial velocity: (rand(-1,1), rand(-1,1)) scaled by 2.0 / (hypot || 1)
initVel(rx, ry) ==
  LET m2 == rx * rx + ry * ry
  IN IF hypot(rx, ry) = 0 THEN <<2 * rx, 2 * ry>>
     ELSE <<scaleTo(rx, m2, 2 * SCALE), scaleTo(ry, m2, 2 * SCALE)>>

---------------------------------------------------------------------------
(* Flocking *)

inVisionAlways(d2) == TRUE

\* d < vision and d < sep, on the squared distance
inVision(d2) == d2 < Vision * Vision

inSep(d2) == d2 < Sep * Sep

toward(dx, d2) == Sgn(dx) * ISqrt((dx * dx * SCALE * SCALE) \div d2)

\* the term  -dx/(d||1)  added to the separation sum
away(dx, d2) == - Sgn(dx) * ISqrt((dx * dx * SCALE * SCALE) \div d2)

noSums == [cx |-> 0, cy |-> 0, vxsum |-> 0, vysum |-> 0,
           sx |-> 0, sy |-> 0, total |-> 0, sclose |-> 0]

RECURSIVE neighbourSums(_, _, _, _)
\* the loop over tmp of agent i, from entry k on
neighbourSums(i, tmp, k, a) ==
  IF k > Len(tmp) THEN a
  ELSE LET j == tmp[k]
           dx == px[j] - px[i]
           dy == py[j] - py[i]
           d2 == dx * dx + dy * dy
           a1 == IF inVision(d2)
                 THEN [a EXCEPT !.total = @ + 1, !.cx = @ + px[j], !.cy = @ + py[j],
                                !.vxsum = @ + vx[j], !.vysum = @ + vy[j]]
                 ELSE a
           a2 == IF inSep(d2)
                 THEN [a1 EXCEPT !.sclose = @ + 1, !.sx = @ + away(dx, d2),
                                 !.sy = @ + away(dy, d2)]
                 ELSE a1
       IN IF j = i \/ d2 = 0 THEN neighbourSums(i, tmp, k + 1, a)
          ELSE neighbourSums(i, tmp, k + 1, a2)

\* alignment + cohesion of agent i from its sums
steerForce(i, a) ==
  IF a.total > 0
  THEN LET al == limit(Quot(a.vxsum, a.total) - vx[i], Quot(a.vysum, a.total) - vy[i], MaxForce)
           co == limit(Quot(a.cx, a.total) - px[i], Quot(a.cy, a.total) - py[i], MaxForce)
       IN <<al[1] * AlignW + co[1] * CohesionW, al[2] * AlignW + co[2] * CohesionW>>
  ELSE <<0, 0>>

\* separation of agent i from its sums
sepForce(a) ==
  IF a.sclose > 0
  THEN LET sv == limit(a.sx, a.sy, (MaxForce * 3) \div 2)
       IN <<sv[1] * SeparationW, sv[2] * SeparationW>>
  ELSE <<0, 0>>

\* the acceleration of agent i from the candidate list tmp
flockFrom(i, tmp) ==
  LET a == neighbourSums(i, tmp, 1, noSums)
      st == steerForce(i, a)
      sp == sepForce(a)
  IN <<st[1] + sp[1], st[2] + sp[2]>>

flockAccKeep(t, i) ==
  LET f == flockFrom(i, query(t, px[i], py[i], Vision))
  IN <<ax[i] + f[1], ay[i] + f[2]>>

\* the acceleration the flocking pass leaves in ax[i], ay[i]
flockAcc(t, i) == flockFrom(i, query(t, px[i], py[i], Vision))

---------------------------------------------------------------------------
(* Shock effects *)

spawnShock(x, y, sign) == Append(effects, [x |-> x, y |-> y, t |-> 0, sign |-> sign])

\* r = 30 + k * 260 with k = E.t / E.life
radius(E) == 30 * SCALE + Quot(E.t * 260 * SCALE, Life)

\* the force factor without Math.min
shockFNoMin(E, d, r) ==
  (IF E.sign > 0 THEN 1 ELSE -1) * Quot(18 * SCALE * (r - d), 10 * r)

\* f = (E.sign > 0 ? +1 : -1) * (1.8 * (1 - Math.min(1, d/r)))
shockF(E, d, r) ==
  (IF E.sign > 0 THEN 1 ELSE -1) * Quot(18 * SCALE * (r - Min(r, d)), 10 * r)

\* 120 * (1 - Math.min(1, d/r)), the change of hue, in 1/SCALE degrees
colorBurst(d, r) == Quot(120 * SCALE * (r - Min(r, d)), r)

expiredLate(E) == E.t > Life

\* k >= 1
expired(E) == E.t >= Life

\* effects.splice(e, 1)
splice(effs, e) == SubSeq(effs, 1, e - 1) \o SubSeq(effs, e + 1, Len(effs))

RECURSIVE applyShock(_, _, _, _, _, _)
\* the loop over tmp2 of one effect, from entry ii on: <<ax, ay>>
applyShock(E, r, tmp2, ii, axs, ays) ==
  IF ii > Len(tmp2) THEN <<axs, ays>>
  ELSE LET i == tmp2[ii]
           dx == px[i] - E.x
           dy == py[i] - E.y
           h == hypot(dx, dy)
           d == IF h = 0 THEN SCALE ELSE h
           f == shockF(E, d, r)
       IN applyShock(E, r, tmp2, ii + 1,
                     [axs EXCEPT ![i] = @ + Quot(dx * f, d)],
                     [ays EXCEPT ![i] = @ + Quot(dy * f, d)])

RECURSIVE effectsForward(_, _, _, _, _, _, _)
\* for (e = 0; e < effects.length; e++) { ... }, from entry e up
effectsForward(t, d, e, effs, axs, ays, spl) ==
  IF e > Len(effs) THEN [effects |-> effs, ax |-> axs, ay |-> ays, spliced |-> spl]
  ELSE LET E == [effs[e] EXCEPT !.t = @ + d]
           r == radius(E)
           acc == applyShock(E, r, query(t, E.x, E.y, r), 1, axs, ays)
           effs1 == [effs EXCEPT ![e] = E]
       IN IF expired(E)
          THEN effectsForward(t, d, e + 1, splice(effs1, e), acc[1], acc[2], Append(spl, E))
          ELSE effectsForward(t, d, e + 1, effs1, acc[1], acc[2], spl)

effectsLoopForward(t, d, e, effs, axs, ays, spl) ==
  effectsForward(t, d, 1, effs, axs, ays, spl)

RECURSIVE effectsLoopNoAdvance(_, _, _, _, _, _, _)
\* the loop without E.t += dt
effectsLoopNoAdvance(t, d, e, effs, axs, ays, spl) ==
  IF e < 1 THEN [effects |-> effs, ax |-> axs, ay |-> ays, spliced |-> spl]
  ELSE LET E == effs[e]
           r == radius(E)
           acc == applyShock(E, r, query(t, E.x, E.y, r), 1, axs, ays)
       IN IF expired(E)
          THEN effectsLoopNoAdvance(t, d, e - 1, splice(effs, e), acc[1], acc[2], Append(spl, E))
          ELSE effectsLoopNoAdvance(t, d, e - 1, effs, acc[1], acc[2], spl)

RECURSIVE effectsLoop(_, _, _, _, _, _, _)
\* for (e = effects.length-1; e >= 0; e--) { ... }, from entry e down
effectsLoop(t, d, e, effs, axs, ays, spl) ==
  IF e < 1 THEN [effects |-> effs, ax |-> axs, ay |-> ays, spliced |-> spl]
  ELSE LET E == [effs[e] EXCEPT !.t = @ + d]
           r == radius(E)
           acc == applyShock(E, r, query(t, E.x, E.y, r), 1, axs, ays)
           effs1 == [effs EXCEPT ![e] = E]
       IN IF expired(E)
          THEN effectsLoop(t, d, e - 1, splice(effs1, e), acc[1], acc[2], Append(spl, E))
          ELSE effectsLoop(t, d, e - 1, effs1, acc[1], acc[2], spl)

---------------------------------------------------------------------------
(* Integration and boundaries *)

wrapCoordToEdge(c, bound) ==
  IF c < -WrapMargin THEN bound
  ELSE IF c > bound + WrapMargin THEN 0
  ELSE c

\* if (c < -5) c = bound + 5; else if (c > bound + 5) c = -5;
wrapCoord(c, bound) ==
  IF c < -WrapMargin THEN bound + WrapMargin
  ELSE IF c > bound + WrapMargin THEN -WrapMargin
  ELSE c

integrateByDt(i) ==
  LET v == limit(vx[i] + ax[i], vy[i] + ay[i], MaxSpeed)
      x1 == px[i] + Quot(v[1] * dt, 16)
      y1 == py[i] + Quot(v[2] * dt, 16)
  IN IF wrap
     THEN <<wrapCoord(x1, innerWidth), wrapCoord(y1, innerHeight), v[1], v[2]>>
     ELSE <<Max(0, Min(innerWidth, x1)), Max(0, Min(innerHeight, y1)),
            IF x1 < 0 \/ x1 > innerWidth THEN -v[1] ELSE v[1],
            IF y1 < 0 \/ y1 > innerHeight THEN -v[2] ELSE v[2]>>

integrateNoFlip(i) ==
  LET v == limit(vx[i] + ax[i], vy[i] + ay[i], MaxSpeed)
      x1 == px[i] + v[1]
      y1 == py[i] + v[2]
  IN IF wrap
     THEN <<wrapCoord(x1, innerWidth), wrapCoord(y1, innerHeight), v[1], v[2]>>
     ELSE <<Max(0, Min(innerWidth, x1)), Max(0, Min(innerHeight, y1)), v[1], v[2]>>

\* the new <<px, py, vx, vy>> of agent i
integrate(i) ==
  LET v == limit(vx[i] + ax[i], vy[i] + ay[i], MaxSpeed)
      x1 == px[i] + v[1]
      y1 == py[i] + v[2]
  IN IF wrap
     THEN <<wrapCoord(x1, innerWidth), wrapCoord(y1, innerHeight), v[1], v[2]>>
     ELSE <<Max(0, Min(innerWidth, x1)), Max(0, Min(innerHeight, y1)),
            IF x1 < 0 \/ x1 > innerWidth THEN -v[1] ELSE v[1],
            IF y1 < 0 \/ y1 > innerHeight THEN -v[2] ELSE v[2]>>

---------------------------------------------------------------------------
(* frame(t), in the order of its passes.  delta is t - last.  Pointer      *)
(* handlers run between frames only (one JavaScript thread).               *)

\* the frame without the clamp: dt = t - last
FrameBuildNoClamp(delta) ==
  /\ pc = "idle"
  /\ dt' = delta
  /\ LET b == buildQuadtree(px, py)
     IN qt' = b.tree /\ ret' = b.ret
  /\ spliced' = <<>>
  /\ pc' = "flock"
  /\ UNCHANGED <<wrap, N, px, py, vx, vy, ax, ay, effects, mouseDown, out, qry, spawn, BASE_HUE, run>>

\* dt = Math.min(32, t - last); build the quadtree
FrameBuild(delta) ==
  /\ pc = "idle"
  /\ dt' = Min(DtClamp, delta)
  /\ LET b == buildQuadtree(px, py)
     IN qt' = b.tree /\ ret' = b.ret
  /\ spliced' = <<>>
  /\ pc' = "flock"
  /\ UNCHANGED <<wrap, N, px, py, vx, vy, ax, ay, effects, mouseDown, out, qry, spawn, BASE_HUE, run>>

\* zero the accelerations, flocking of every agent
FrameFlock ==
  /\ pc = "flock"
  /\ ax' = [i \in 0..N-1 |-> flockAcc(qt, i)[1]]
  /\ ay' = [i \in 0..N-1 |-> flockAcc(qt, i)[2]]
  /\ pc' = "shock"
  /\ UNCHANGED <<wrap, N, px, py, vx, vy, effects, mouseDown, qt, ret, out, qry, spliced, dt, steps, spawn, BASE_HUE, run, firstRun>>

\* the effects loop
FrameShock ==
  /\ pc = "shock"
  /\ LET res == effectsLoop(qt, dt, Len(effects), effects, ax, ay, <<>>)
     IN /\ effects' = res.effects
        /\ ax' = res.ax
        /\ ay' = res.ay
        /\ spliced' = res.spliced
  /\ pc' = "integrate"
  /\ UNCHANGED <<wrap, N, px, py, vx, vy, mouseDown, qt, ret, out, qry, dt, steps, spawn, BASE_HUE, run, firstRun>>

\* integrate and apply the boundary rule for every agent
FrameIntegrate ==
  /\ pc = "integrate"
  /\ px' = [i \in 0..N-1 |-> integrate(i)[1]]
  /\ py' = [i \in 0..N-1 |-> integrate(i)[2]]
  /\ vx' = [i \in 0..N-1 |-> integrate(i)[3]]
  /\ vy' = [i \in 0..N-1 |-> integrate(i)[4]]
  /\ dt' = 0
  /\ pc' = "idle"
  /\ UNCHANGED <<wrap, N, ax, ay, effects, mouseDown, qt, ret, out, qry, spliced, steps, spawn, BASE_HUE, run, firstRun>>

PointerDownAnytime(P, max) ==
  /\ Len(effects) < max
  /\ \E c \in P : effects' = spawnShock(c[1], c[2], 1)
  /\ mouseDown' = TRUE
  /\ UNCHANGED <<wrap, N, px, py, vx, vy, ax, ay, qt, ret, out, qry, spliced, dt, pc, steps, spawn, BASE_HUE, run, firstRun>>

\* the listeners run between frames: a frame is one uninterrupted task
PointerDown(P, max) ==
  /\ pc = "idle" /\ Len(effects) < max
  /\ \E c \in P : effects' = spawnShock(c[1], c[2], 1)
  /\ mouseDown' = TRUE
  /\ UNCHANGED <<wrap, N, px, py, vx, vy, ax, ay, qt, ret, out, qry, spliced, dt, pc, steps, spawn, BASE_HUE, run, firstRun>>

PointerUp(P, max) ==
  /\ pc = "idle" /\ Len(effects) < max
  /\ \E c \in P : effects' = spawnShock(c[1], c[2], -1)
  /\ mouseDown' = FALSE
  /\ UNCHANGED <<wrap, N, px, py, vx, vy, ax, ay, qt, ret, out, qry, spliced, dt, pc, steps, spawn, BASE_HUE, run, firstRun>>

PointerMove(P, max) ==
  /\ pc = "idle" /\ Len(effects) < max
  /\ mouseDown
  /\ \E c \in P : effects' = spawnShock(c[1], c[2], 1)
  /\ UNCHANGED <<wrap, N, px, py, vx, vy, ax, ay, mouseDown, qt, ret, out, qry, spliced, dt, pc, steps, spawn, BASE_HUE, run, firstRun>>

---------------------------------------------------------------------------
(* The simulation: a few agents, a few frames, pointer input *)

\* starting points <<x, y, rand(-1,1), rand(-1,1)>> the agents draw from
Seeds ==
  << <<511 * SCALE + SCALE \div 2, 100 * SCALE, SCALE, 0>>,
     <<1 * SCALE, 1 * SCALE, -SCALE, -SCALE>>,
     <<505 * SCALE, 100 * SCALE, 0, 0>>,
     <<300 * SCALE, 100 * SCALE, SCALE, 0>>,
     <<508 * SCALE, 104 * SCALE, -SCALE, 0>>,
     <<100 * SCALE, 200 * SCALE, SCALE, SCALE>> >>

\* agents 0 and 1 have two starting points each, the others one
seedsOf(i) ==
  IF i < 2 THEN { Seeds[2 * i + 1], Seeds[2 * i + 2] }
  ELSE { Seeds[((i + 2) % Len(Seeds)) + 1] }

SimPointers == { <<500 * SCALE, 100 * SCALE>> }

SimDeltas == {16, 48}

\* the page has been loaded once
FirstLoad == spawn = "random" /\ run = 1 /\ firstRun = <<>>

\* n agents, agent i starting from one of the points F[i]
InitAgents(n, F) ==
  /\ N = n
  /\ \E sd \in [0..n-1 -> UNION {F[i] : i \in 0..n-1}] :
       /\ \A i \in 0..n-1 : sd[i] \in F[i]
       /\ px = [i \in 0..n-1 |-> sd[i][1]]
       /\ py = [i \in 0..n-1 |-> sd[i][2]]
       /\ vx = [i \in 0..n-1 |-> initVel(sd[i][3], sd[i][4])[1]]
       /\ vy = [i \in 0..n-1 |-> initVel(sd[i][3], sd[i][4])[2]]
  /\ ax = [i \in 0..n-1 |-> 0] /\ ay = [i \in 0..n-1 |-> 0]
  /\ effects = <<>> /\ mouseDown = FALSE /\ spliced = <<>>
  /\ qt = Quadtree(0, 0, innerWidth, innerHeight)
  /\ ret = <<>> /\ out = <<>> /\ qry = <<>>
  /\ dt = 0 /\ pc = "idle" /\ steps = 0
  /\ FirstLoad

\* the starting points are drawn freely here, the seed plays no part
Init ==
  /\ wrap \in BOOLEAN
  /\ BASE_HUE = 0
  /\ \E n \in {2, NSim} : InitAgents(n, [i \in 0..n-1 |-> seedsOf(i)])

Frame ==
  /\ steps < MaxSteps
  /\ \E delta \in SimDeltas : FrameBuild(delta)
  /\ steps' = steps + 1
  /\ UNCHANGED firstRun

Next ==
  \/ Frame
  \/ FrameFlock
  \/ FrameShock
  \/ FrameIntegrate
  \/ PointerDown(SimPointers, MaxEffects)
  \/ PointerUp(SimPointers, MaxEffects)
  \/ PointerMove(SimPointers, MaxEffects)

Spec == Init /\ [][Next]_vars

---------------------------------------------------------------------------
(* Construction from an arbitrary CFG.  make_doc writes the dictionary it  *)
(* is given into the page, and the script uses it as it is.                *)

\* values of CFG.count tried: negative, zero, and a proper population
CfgCounts == {-1, 0, 2}

\* const N = CFG.count; new Float32Array(N) throws a RangeError for a
\* negative length, and the script stops before it requests a frame
InitCfg ==
  /\ wrap \in BOOLEAN
  /\ BASE_HUE = 0
  /\ \E n \in CfgCounts :
       IF n < 0
       THEN /\ N = n /\ pc = "error"
            /\ px = <<>> /\ py = <<>> /\ vx = <<>> /\ vy = <<>> /\ ax = <<>> /\ ay = <<>>
            /\ effects = <<>> /\ mouseDown = FALSE /\ spliced = <<>>
            /\ qt = Quadtree(0, 0, innerWidth, innerHeight)
            /\ ret = <<>> /\ out = <<>> /\ qry = <<>>
            /\ dt = 0 /\ steps = 0
            /\ FirstLoad
       ELSE InitAgents(n, [i \in 0..n-1 |-> seedsOf(i)])

SpecCfg == InitCfg /\ [][Next]_vars

---------------------------------------------------------------------------
(* The effects over their whole life: one agent at rest, out of reach of   *)
(* every shock, so that only the effects list and the clock change.        *)

evtSeedsOf(i) == { <<16 * SCALE, 16 * SCALE, 0, 0>> }

EvtPointers == { <<480 * SCALE, 240 * SCALE>> }

\* t - last of a frame, ms: a repeated timestamp, a 16 ms frame, a 32 ms
\* frame, and a pause longer than the clamp
EvtDeltas == {0, 16, 32, 48}

InitEvt ==
  /\ wrap = TRUE
  /\ BASE_HUE = 0
  /\ InitAgents(1, [i \in 0..0 |-> evtSeedsOf(i)])

FrameEvt ==
  /\ \E delta \in EvtDeltas : FrameBuild(delta)
  /\ UNCHANGED <<steps, firstRun>>

NextEvt ==
  \/ FrameEvt
  \/ FrameFlock
  \/ FrameShock
  \/ FrameIntegrate
  \/ PointerDown(EvtPointers, MaxEvtEffects)
  \/ PointerUp(EvtPointers, MaxEvtEffects)
  \/ PointerMove(EvtPointers, MaxEvtEffects)

SpecEvt == InitEvt /\ [][NextEvt]_vars

\* a frame whose timestamp is later than that of the frame before
FrameLater ==
  /\ \E delta \in {d \in EvtDeltas : d > 0} : FrameBuild(delta)
  /\ UNCHANGED <<steps, firstRun>>

\* requestAnimationFrame keeps delivering frames, each runs to its end, and
\* again and again one of them comes with a later timestamp.  The effects
\* pass is enabled exactly when pc = "shock" and leaves it, so weak fairness
\* of FrameShock is written on the state.
SpecLive ==
  /\ SpecEvt
  /\ WF_vars(FrameFlock) /\ []<>(pc # "shock") /\ WF_vars(FrameIntegrate)
  /\ SF_vars(FrameLater)

---------------------------------------------------------------------------
(* One shock at a time, followed from its injection to its removal, with   *)
(* the frames it is in the list for counted in steps.                      *)

\* t - last of a frame, ms: a repeated timestamp, 16 ms and 32 ms frames,
\* a gap just above the clamp, and a pause of five seconds
ClkDeltas == {0, 16, 32, 48, 5000}

\* steps restarts at 1 with the first pass of a shock: the list is empty
\* before the injection, or the pass of the frame before has emptied it
FrameClk ==
  /\ effects # <<>> => steps < MaxClkSteps
  /\ \E delta \in ClkDeltas : FrameBuild(delta)
  /\ steps' = IF effects = <<>> THEN 0 ELSE IF spliced # <<>> THEN 1 ELSE steps + 1
  /\ UNCHANGED firstRun

NextClk ==
  \/ FrameClk
  \/ FrameFlock
  \/ FrameShock
  \/ FrameIntegrate
  \/ PointerDown(EvtPointers, 1)
  \/ PointerUp(EvtPointers, 1)
  \/ PointerMove(EvtPointers, 1)

SpecClk == InitEvt /\ [][NextClk]_vars

---------------------------------------------------------------------------
(* The effects pass with several shocks of different ages.  The list of    *)
(* effects is as earlier frames and pointer events leave it: spawnShock    *)
(* appends, every pass adds the same dt to every entry, so the elapsed     *)
(* times never increase along the list.                                    *)

\* elapsed times, ms, of the shocks already in the list: just injected, and
\* one or two 16 ms frames before the end of their life
PassAges == {0, 1168, 1184}

PassPointers == { <<256 * SCALE, 128 * SCALE>>, <<300 * SCALE, 128 * SCALE>> }

\* where the pointer is while the frames are followed
PassClicks == { c \in PassPointers : c[1] = 256 * SCALE }

PassDeltas == {16, 32}

\* agents at rest: on the first pointer position or 22 px from it, 100 px
\* from it, and 200 px from it
passSeedsOf(i) ==
  IF i = 0 THEN { <<256 * SCALE, 128 * SCALE, 0, 0>>, <<276 * SCALE, 138 * SCALE, 0, 0>> }
  ELSE IF i = 1 THEN { <<356 * SCALE, 128 * SCALE, 0, 0>> }
  ELSE { <<456 * SCALE, 128 * SCALE, 0, 0>> }

\* the lists of at most max shocks that pointer events and frames produce:
\* pushes at the first pointer position, pulls at the second
agedEffects(max) ==
  LET P == CHOOSE c \in PassPointers : c[1] = 256 * SCALE
      Q == CHOOSE c \in PassPointers : c # P
      shocks == { [x |-> P[1], y |-> P[2], t |-> a, sign |-> 1] : a \in PassAges }
                \cup { [x |-> Q[1], y |-> Q[2], t |-> a, sign |-> -1] : a \in PassAges }
  IN { effs \in UNION { [1..n -> shocks] : n \in 0..max } :
         \A a, b \in 1..Len(effs) : a < b => effs[a].t >= effs[b].t }

InitPass ==
  /\ wrap = TRUE
  /\ BASE_HUE = 0
  /\ N \in {2, 3}
  /\ \E sd \in [0..N-1 -> UNION {passSeedsOf(i) : i \in 0..N-1}] :
       /\ \A i \in 0..N-1 : sd[i] \in passSeedsOf(i)
       /\ px = [i \in 0..N-1 |-> sd[i][1]]
       /\ py = [i \in 0..N-1 |-> sd[i][2]]
  /\ vx = [i \in 0..N-1 |-> 0] /\ vy = [i \in 0..N-1 |-> 0]
  /\ ax = [i \in 0..N-1 |-> 0] /\ ay = [i \in 0..N-1 |-> 0]
  /\ effects \in agedEffects(MaxPassEffects)
  /\ mouseDown = (effects # <<>> /\ effects[Len(effects)].sign > 0)
  /\ spliced = <<>>
  /\ qt = Quadtree(0, 0, innerWidth, innerHeight)
  /\ ret = <<>> /\ out = <<>> /\ qry = <<>>
  /\ dt = 0 /\ pc = "idle" /\ steps = 0
  /\ FirstLoad

FramePass ==
  /\ steps < MaxPassSteps
  /\ \E delta \in PassDeltas : FrameBuild(delta)
  /\ steps' = steps + 1
  /\ UNCHANGED firstRun

NextPass ==
  \/ FramePass
  \/ FrameFlock
  \/ FrameShock
  \/ FrameIntegrate
  \/ PointerDown(PassClicks, MaxPassEffects)
  \/ PointerUp(PassClicks, MaxPassEffects)
  \/ PointerMove(PassClicks, MaxPassEffects)

SpecPass == InitPass /\ [][NextPass]_vars

---------------------------------------------------------------------------
(* The boundary rules: one agent starting next to an edge or a corner of   *)
(* the world and heading out of it, no pointer input.                      *)

\* starting points <<x, y, rand(-1,1), rand(-1,1)>>: half a pixel inside each
\* edge heading out, one and two pixels inside the right and left edge (the
\* agent then lands exactly on bound + margin, on the bound and on 0), two
\* corners heading out diagonally, and the centre
BndSeeds ==
  { <<SCALE \div 2, 100 * SCALE, -SCALE, 0>>,
    <<innerWidth - SCALE \div 2, 100 * SCALE, SCALE, 0>>,
    <<innerWidth - SCALE, 100 * SCALE, SCALE, 0>>,
    <<innerWidth - 2 * SCALE, 100 * SCALE, SCALE, 0>>,
    <<2 * SCALE, 100 * SCALE, -SCALE, 0>>,
    <<100 * SCALE, SCALE \div 2, 0, -SCALE>>,
    <<100 * SCALE, innerHeight - SCALE \div 2, 0, SCALE>>,
    <<SCALE \div 2, SCALE \div 2, -SCALE, -SCALE>>,
    <<SCALE \div 2, innerHeight - SCALE \div 2, -SCALE, SCALE>>,
    <<innerWidth \div 2, innerHeight \div 2, SCALE, SCALE>> }

InitBnd ==
  /\ wrap \in BOOLEAN
  /\ BASE_HUE = 0
  /\ InitAgents(1, [i \in 0..0 |-> BndSeeds])

FrameBnd ==
  /\ steps < MaxBndSteps
  /\ \E delta \in SimDeltas : FrameBuild(delta)
  /\ steps' = steps + 1
  /\ UNCHANGED firstRun

NextBnd ==
  \/ FrameBnd
  \/ FrameFlock
  \/ FrameShock
  \/ FrameIntegrate

SpecBnd == InitBnd /\ [][NextBnd]_vars

---------------------------------------------------------------------------
(* The seeded generator and two loads of the same page.  The generator's   *)
(* state is kept to its low RndBits bits and rnd() to RndBits - 8 bits, so *)
(* that the products stay in range; it is advanced once per call, in the   *)
(* order of the calls of the initial loop.                                 *)

RndBits == 15

RndMod == 2 ^ RndBits

\* the largest value of  _seed >>> 8
RndTop == RndMod \div 256 - 1

\* let _seed = (BASE_HUE * 9301 + 49297) % 233280
rndSeed(hue) == (hue * 9301 + 49297) % 233280

\* _seed = (1103515245 * _seed + 12345) & 0x7fffffff
rndStep(sd) == ((1103515245 % RndMod) * (sd % RndMod) + 12345) % RndMod

RECURSIVE rndAt(_, _)
\* _seed after k calls of rnd()
rndAt(hue, k) == IF k = 0 THEN rndSeed(hue) ELSE rndStep(rndAt(hue, k - 1))

\* rand(min, max) at the k-th call: rnd() * (max - min) + min
rand(hue, k, min, max) == Quot((rndAt(hue, k) \div 256) * (max - min), RndTop) + min

\* the starting point <<x, y, rand(-1,1), rand(-1,1)>> of agent i: calls
\* 5i+1 .. 5i+4 of the initial loop (the fifth sets the hue of the agent)
seedOfAgent(hue, i) ==
  << rand(hue, 5 * i + 1, 0, innerWidth), rand(hue, 5 * i + 2, 0, innerHeight),
     rand(hue, 5 * i + 3, -SCALE, SCALE), rand(hue, 5 * i + 4, -SCALE, SCALE) >>

DetHues == {104, 190, 228}

\* the agents as a frame finds them
snapshot == <<px, py, vx, vy>>

\* the state the script builds when the page is loaded with seed hue
Construct(hue, n) ==
  /\ N' = n
  /\ px' = [i \in 0..n-1 |-> seedOfAgent(hue, i)[1]]
  /\ py' = [i \in 0..n-1 |-> seedOfAgent(hue, i)[2]]
  /\ vx' = [i \in 0..n-1 |-> initVel(seedOfAgent(hue, i)[3], seedOfAgent(hue, i)[4])[1]]
  /\ vy' = [i \in 0..n-1 |-> initVel(seedOfAgent(hue, i)[3], seedOfAgent(hue, i)[4])[2]]
  /\ ax' = [i \in 0..n-1 |-> 0] /\ ay' = [i \in 0..n-1 |-> 0]
  /\ effects' = <<>> /\ mouseDown' = FALSE /\ spliced' = <<>>
  /\ qt' = Quadtree(0, 0, innerWidth, innerHeight)
  /\ ret' = <<>> /\ out' = <<>> /\ qry' = <<>>
  /\ dt' = 0 /\ pc' = "idle" /\ steps' = 0

InitDet ==
  /\ wrap \in BOOLEAN
  /\ BASE_HUE \in DetHues
  /\ InitAgents(NSim, [i \in 0..NSim-1 |-> {seedOfAgent(BASE_HUE, i)}])

FrameDet ==
  /\ steps < MaxDetSteps
  /\ \E delta \in SimDeltas : FrameBuild(delta)
  /\ steps' = steps + 1
  /\ firstRun' = IF run = 1 THEN Append(firstRun, snapshot) ELSE firstRun

\* the same page (same seed, configuration and world size) loaded again
Reload ==
  /\ pc = "idle" /\ run = 1
  /\ Construct(BASE_HUE, N)
  /\ run' = 2
  /\ firstRun' = Append(firstRun, snapshot)
  /\ UNCHANGED <<wrap, spawn, BASE_HUE>>

NextDet ==
  \/ FrameDet
  \/ FrameFlock
  \/ FrameShock
  \/ FrameIntegrate
  \/ Reload

SpecDet == InitDet /\ [][NextDet]_vars

---------------------------------------------------------------------------
(* The all-pairs variant (boids-generator.py): class Vec, class Boid,      *)
(* seedBoids, frame, the pointerdown and keydown listeners.  Its boids are *)
(* kept in px, py (pos), vx, vy (vel) and ax, ay (acc); N is CONFIG.count. *)
(* Math.random() is unseeded: a run of draws u is one of a few sequences,  *)
(* mathRandom(u, k) its k-th value as a numerator over RndTop.             *)

APStreams == {1, 2}

mathRandom(u, k) == ((u * 37 + k * 61) * (k + 11)) % (RndTop + 1)

\* rand(min, max) on the k-th draw of u
apRand(u, k, min, max) == Quot(mathRandom(u, k) * (max - min), RndTop) + min

\* CONFIG.noise, one unit of the grid (0.03 px)
Noise == 1

APWrapMargin == 8 * SCALE

\* smallest c with c * c >= n
CeilSqrt(n) == IF ISqrt(n) * ISqrt(n) = n THEN ISqrt(n) ELSE ISqrt(n) + 1

\* Vec.setMag(n): m = mag() || 1; mul(n / m)
setMag(x, y, n) ==
  LET m2 == x * x + y * y
  IN IF m2 = 0 THEN <<x * n, y * n>>
     ELSE <<Quot(x * n, CeilSqrt(m2)), Quot(y * n, CeilSqrt(m2))>>

\* Vec.limit(n)
vecLimit(x, y, n) == IF x * x + y * y > n * n THEN setMag(x, y, n) ELSE <<x, y>>

\* new Boid(x, y): vel = (rand(-1,1), rand(-1,1)).setMag(rand(0.4 maxSpeed, maxSpeed)),
\* on the draws k+1, k+2, k+3 of u
Boid(x, y, u, k) ==
  LET v == setMag(apRand(u, k + 1, -SCALE, SCALE), apRand(u, k + 2, -SCALE, SCALE),
                  apRand(u, k + 3, (MaxSpeed * 4) \div 10, MaxSpeed))
  IN [x |-> x, y |-> y, vx |-> v[1], vy |-> v[2]]

\* cos and sin of the eight directions a draw is taken to, in 1/32
cos32(o) == <<32, 22, 0, -22, -32, -22, 0, 22>>[(o % 8) + 1]

sin32(o) == cos32(o + 6)

RECURSIVE seedRandom(_, _, _, _, _, _)
\* for (i = 0; i < n; i++) arr.push(new Boid(rand(0,w), rand(0,h)))
seedRandom(n, w, h, u, i, arr) ==
  IF i >= n THEN arr
  ELSE seedRandom(n, w, h, u, i + 1,
         Append(arr, Boid(apRand(u, 5 * i + 1, 0, w), apRand(u, 5 * i + 2, 0, h), u, 5 * i + 2)))

RECURSIVE seedCircle(_, _, _, _, _, _)
\* t = Math.random() * TAU; new Boid(cx + cos(t) * r, cy + sin(t) * r)
seedCircle(n, w, h, u, i, arr) ==
  IF i >= n THEN arr
  ELSE LET o == (mathRandom(u, 4 * i + 1) * 8) \div (RndTop + 1)
           r == Min(w, h) \div 4
       IN seedCircle(n, w, h, u, i + 1,
            Append(arr, Boid(w \div 2 + Quot(cos32(o) * r, 32),
                             h \div 2 + Quot(sin32(o) * r, 32), u, 4 * i + 1)))

RECURSIVE gridFillAll(_, _, _, _, _, _, _, _, _, _)
\* a grid loop without the k++ >= n test: every cell of every row is filled
gridFillAll(n, cols, rows, gx, gy, u, y, x, k, arr) ==
  IF y > rows THEN arr
  ELSE IF x > cols THEN gridFillAll(n, cols, rows, gx, gy, u, y + 1, 1, k, arr)
  ELSE gridFillAll(n, cols, rows, gx, gy, u, y, x + 1, k + 1,
         Append(arr, Boid(gx * x, gy * y, u, 3 * k)))

RECURSIVE gridFill(_, _, _, _, _, _, _, _, _, _)
\* let k=0; for (y=1..rows) for (x=1..cols) { if (k++>=n) break; arr.push(...) }
gridFill(n, cols, rows, gx, gy, u, y, x, k, arr) ==
  IF y > rows THEN arr
  ELSE IF x > cols THEN gridFill(n, cols, rows, gx, gy, u, y + 1, 1, k, arr)
  ELSE IF k >= n THEN gridFill(n, cols, rows, gx, gy, u, y + 1, 1, k + 1, arr)
  ELSE gridFill(n, cols, rows, gx, gy, u, y, x + 1, k + 1,
         Append(arr, Boid(gx * x, gy * y, u, 3 * k)))

seedGridAll(n, w, h, u) ==
  LET cols == Max(8, ISqrt(n))
      rows == (n + cols - 1) \div cols
  IN gridFillAll(n, cols, rows, w \div (cols + 1), h \div (rows + 1), u, 1, 1, 0, <<>>)

\* cols = max(8, floor(sqrt(n))), rows = ceil(n / cols), gx = w/(cols+1), gy = h/(rows+1)
seedGrid(n, w, h, u) ==
  LET cols == Max(8, ISqrt(n))
      rows == (n + cols - 1) \div cols
  IN gridFill(n, cols, rows, w \div (cols + 1), h \div (rows + 1), u, 1, 1, 0, <<>>)

\* seedBoids(n, w, h) in spawn mode mode, on the draws u
seedBoids(n, w, h, mode, u) ==
  IF mode = "circle" THEN seedCircle(n, w, h, u, 0, <<>>)
  ELSE IF mode = "grid" THEN seedGrid(n, w, h, u)
  ELSE seedRandom(n, w, h, u, 0, <<>>)

\* boids.length
boidsLength == Cardinality(DOMAIN px)

noTotals == [total |-> 0, close |-> 0, alx |-> 0, aly |-> 0, cox |-> 0, coy |-> 0,
             sex |-> 0, sey |-> 0]

RECURSIVE steerSums(_, _, _)
\* the loop of Boid.steer over boids, from other j on
steerSums(i, j, a) ==
  IF j >= boidsLength THEN a
  ELSE LET dx == px[j] - px[i]
           dy == py[j] - py[i]
           d2 == dx * dx + dy * dy
           a1 == [a EXCEPT !.total = @ + 1, !.alx = @ + vx[j], !.aly = @ + vy[j],
                           !.cox = @ + px[j], !.coy = @ + py[j]]
           a2 == IF inSep(d2)
                 THEN [a1 EXCEPT !.close = @ + 1, !.sex = @ + away(dx, d2),
                                 !.sey = @ + away(dy, d2)]
                 ELSE a1
       IN IF j = i THEN steerSums(i, j + 1, a)
          ELSE IF inVision(d2) /\ d2 > 0 THEN steerSums(i, j + 1, a2)
          ELSE steerSums(i, j + 1, a)

\* v.sub(this.vel).limit(maxForce).mul(w) for a vector v already at maxSpeed
steerTo(v, i, w) ==
  LET f == vecLimit(v[1] - vx[i], v[2] - vy[i], MaxForce)
  IN <<f[1] * w, f[2] * w>>

\* the three vectors Boid.steer applies for boid i (zero when it applies none)
steerTerms(i) ==
  LET a == steerSums(i, 0, noTotals)
  IN IF a.total > 0
     THEN [align |-> steerTo(setMag(Quot(a.alx, a.total), Quot(a.aly, a.total), MaxSpeed),
                             i, AlignW),
           cohesion |-> steerTo(setMag(Quot(a.cox, a.total) - px[i],
                                       Quot(a.coy, a.total) - py[i], MaxSpeed), i, CohesionW),
           separation |-> steerTo(setMag(a.sex, a.sey, MaxSpeed), i, SeparationW)]
     ELSE [align |-> <<0, 0>>, cohesion |-> <<0, 0>>, separation |-> <<0, 0>>]

\* the noise vector of boid i on the draws u
noiseOf(u, i) ==
  <<apRand(u, 2 * i + 1, -Noise, Noise), apRand(u, 2 * i + 2, -Noise, Noise)>>

\* acc of boid i after Boid.steer
steer(i, u) ==
  LET t == steerTerms(i)
  IN <<ax[i] + t.align[1] + t.cohesion[1] + t.separation[1] + noiseOf(u, i)[1],
       ay[i] + t.align[2] + t.cohesion[2] + t.separation[2] + noiseOf(u, i)[2]>>

apWrap(c, bound) ==
  IF c < -APWrapMargin THEN bound + APWrapMargin
  ELSE IF c > bound + APWrapMargin THEN -APWrapMargin
  ELSE c

\* Boid.update(w, h): the new <<pos.x, pos.y, vel.x, vel.y>> of boid i
update(i) ==
  LET v == vecLimit(vx[i] + ax[i], vy[i] + ay[i], MaxSpeed)
      x1 == px[i] + v[1]
      y1 == py[i] + v[2]
  IN IF wrap
     THEN <<apWrap(x1, innerWidth), apWrap(y1, innerHeight), v[1], v[2]>>
     ELSE <<Max(0, Min(innerWidth, x1)), Max(0, Min(innerHeight, y1)),
            IF x1 < 0 \/ x1 > innerWidth THEN -v[1] ELSE v[1],
            IF y1 < 0 \/ y1 > innerHeight THEN -v[2] ELSE v[2]>>

\* boids = seedBoids(CONFIG.count, innerWidth, innerHeight), primed or not
BoidsAre(arr, x, y, wx, wy, bx, by) ==
  \E b \in {arr} :
    /\ x = [i \in 0..Len(b)-1 |-> b[i + 1].x]
    /\ y = [i \in 0..Len(b)-1 |-> b[i + 1].y]
    /\ wx = [i \in 0..Len(b)-1 |-> b[i + 1].vx]
    /\ wy = [i \in 0..Len(b)-1 |-> b[i + 1].vy]
    /\ bx = [i \in 0..Len(b)-1 |-> 0]
    /\ by = [i \in 0..Len(b)-1 |-> 0]

APCounts == {2, APCount}

APPointers == { <<innerWidth \div 9 + 10 * SCALE, innerHeight \div 3>>,
                <<innerWidth \div 2, innerHeight \div 2 - 60 * SCALE>> }

InitAP ==
  /\ wrap \in BOOLEAN
  /\ N \in APCounts
  /\ spawn \in {"random", "circle", "grid"}
  /\ \E u \in APStreams :
       BoidsAre(seedBoids(N, innerWidth, innerHeight, spawn, u), px, py, vx, vy, ax, ay)
  /\ effects = <<>> /\ mouseDown = FALSE /\ spliced = <<>>
  /\ qt = Quadtree(0, 0, innerWidth, innerHeight)
  /\ ret = <<>> /\ out = <<>> /\ qry = <<>>
  /\ dt = 0 /\ pc = "idle" /\ steps = 0
  /\ BASE_HUE = 0 /\ run = 1 /\ firstRun = <<>>

\* frame(t): for (i...) boids[i].steer(boids)
SteerAll ==
  /\ pc = "idle" /\ steps < MaxAPSteps
  /\ \E u \in APStreams :
       \E acc \in {[i \in 0..boidsLength-1 |-> steer(i, u)]} :
         /\ ax' = [i \in 0..boidsLength-1 |-> acc[i][1]]
         /\ ay' = [i \in 0..boidsLength-1 |-> acc[i][2]]
  /\ pc' = "update"
  /\ steps' = steps + 1
  /\ UNCHANGED <<wrap, N, px, py, vx, vy, effects, mouseDown, qt, ret, out, qry, spliced, dt, spawn, BASE_HUE, run, firstRun>>

\* frame(t): for (i...) boids[i].update(w, h)
UpdateAll ==
  /\ pc = "update"
  /\ \E b \in {[i \in 0..boidsLength-1 |-> update(i)]} :
       /\ px' = [i \in 0..boidsLength-1 |-> b[i][1]]
       /\ py' = [i \in 0..boidsLength-1 |-> b[i][2]]
       /\ vx' = [i \in 0..boidsLength-1 |-> b[i][3]]
       /\ vy' = [i \in 0..boidsLength-1 |-> b[i][4]]
  /\ ax' = [i \in 0..boidsLength-1 |-> 0]
  /\ ay' = [i \in 0..boidsLength-1 |-> 0]
  /\ pc' = "idle"
  /\ UNCHANGED <<wrap, N, effects, mouseDown, qt, ret, out, qry, spliced, dt, steps, spawn, BASE_HUE, run, firstRun>>

\* the nudge of boid i by a click at (cx, cy)
nudge(i, cx, cy) ==
  IF (px[i] - cx) * (px[i] - cx) + (py[i] - cy) * (py[i] - cy)
       < ((Vision * 6) \div 10) * ((Vision * 6) \div 10)
  THEN setMag(px[i] - cx, py[i] - cy, MaxForce * 6)
  ELSE <<0, 0>>

\* pointerdown: nudge the boids within 0.6 vision of the click; one click is
\* followed between two frames
PointerDownNudge ==
  /\ pc = "idle"
  /\ \A i \in 0..boidsLength-1 : ax[i] = 0 /\ ay[i] = 0
  /\ \E c \in APPointers :
       /\ ax' = [i \in 0..boidsLength-1 |-> ax[i] + nudge(i, c[1], c[2])[1]]
       /\ ay' = [i \in 0..boidsLength-1 |-> ay[i] + nudge(i, c[1], c[2])[2]]
  /\ UNCHANGED <<wrap, N, px, py, vx, vy, effects, mouseDown, qt, ret, out, qry, spliced, dt, pc, steps, spawn, BASE_HUE, run, firstRun>>

\* modes[(modes.indexOf(CONFIG.spawn) + 1) % modes.length]
nextSpawn(mode) ==
  IF mode = "random" THEN "circle" ELSE IF mode = "circle" THEN "grid" ELSE "random"

\* keydown 'r': next spawn mode, boids = seedBoids(CONFIG.count, ...)
KeyDownR ==
  /\ pc = "idle"
  /\ spawn' = nextSpawn(spawn)
  /\ \E u \in APStreams :
       BoidsAre(seedBoids(N, innerWidth, innerHeight, spawn', u), px', py', vx', vy', ax', ay')
  /\ UNCHANGED <<wrap, N, effects, mouseDown, qt, ret, out, qry, spliced, dt, pc, steps, BASE_HUE, run, firstRun>>

NextAP ==
  \/ SteerAll
  \/ UpdateAll
  \/ PointerDownNudge
  \/ KeyDownR

SpecAP == InitAP /\ [][NextAP]_vars

---------------------------------------------------------------------------
(* The quadtree on its own: the build loop taken one top-level insert at a *)
(* time, with queries in between.                                          *)

\* positions tried: a corner of the root, its centre (on both split lines),
\* an interior point, and x = innerWidth (where the bounce clamp puts an agent)
QTPoints ==
  { <<0, 0>>, <<innerWidth \div 2, innerHeight \div 2>>,
    <<100 * SCALE, 100 * SCALE>>, <<innerWidth, 10 * SCALE>> }

QTRadii == {0, Vision, 150 * SCALE}

Idle ==
  /\ wrap = TRUE /\ vx = [i \in 0..N-1 |-> 0] /\ vy = [i \in 0..N-1 |-> 0]
  /\ ax = [i \in 0..N-1 |-> 0] /\ ay = [i \in 0..N-1 |-> 0]
  /\ effects = <<>> /\ mouseDown = FALSE /\ spliced = <<>>
  /\ dt = 0 /\ steps = 0

InitQT ==
  /\ FirstLoad /\ BASE_HUE = 0
  /\ N = QtCap + 2
  /\ \E pts \in [0..N-1 -> QTPoints] :
       /\ px = [i \in 0..N-1 |-> pts[i][1]]
       /\ py = [i \in 0..N-1 |-> pts[i][2]]
  /\ Idle
  /\ qt = Quadtree(0, 0, innerWidth, innerHeight)
  /\ ret = <<>> /\ out = <<>> /\ qry = <<>>
  /\ pc = "build"

\* one iteration of  for (i...) qt.insert(i, px[i], py[i])
InsertNext ==
  /\ pc = "build" /\ Len(ret) < N
  /\ LET i == Len(ret)
         res == insert(qt, i, px[i], py[i], <<>>)
     IN /\ qt' = res.tree
        /\ ret' = Append(ret, res.ok)
  /\ out' = <<>> /\ qry' = <<>>
  /\ UNCHANGED <<wrap, N, px, py, vx, vy, ax, ay, effects, mouseDown, spliced, dt, pc, steps, spawn, BASE_HUE, run, firstRun>>

\* qt.query(cx, cy, r, out) with a fresh out
QueryAny ==
  /\ pc = "build"
  /\ \E c \in QTPoints, r \in QTRadii :
       /\ out' = query(qt, c[1], c[2], r)
       /\ qry' = <<c[1], c[2], r>>
  /\ UNCHANGED <<wrap, N, px, py, vx, vy, ax, ay, effects, mouseDown, spliced, dt, pc, steps, qt, ret, spawn, BASE_HUE, run, firstRun>>

NextQT == InsertNext \/ QueryAny

SpecQT == InitQT /\ [][NextQT]_vars

---------------------------------------------------------------------------
(* Quadtree properties *)

leaves(t) == {p \in DOMAIN t : ~t[p].divided}

stored(t, p) == Range(SubSeq(t[p].idx, 1, t[p].count))

\* indices held anywhere in the tree
storedAll(t) == UNION {stored(t, p) : p \in DOMAIN t}

insideRoot(x, y) == x >= 0 /\ y >= 0 /\ x < innerWidth /\ y < innerHeight

\* squared distance from (cx, cy) to the closed rectangle of a node
rectDist2(node, cx, cy) ==
  LET ddx == IF cx < node.x THEN node.x - cx
             ELSE IF cx > node.x + node.w THEN cx - (node.x + node.w) ELSE 0
      ddy == IF cy < node.y THEN node.y - cy
             ELSE IF cy > node.y + node.h THEN cy - (node.y + node.h) ELSE 0
  IN ddx * ddx + ddy * ddy

dist2(x1, y1, x2, y2) == (x1 - x2) * (x1 - x2) + (y1 - y2) * (y1 - y2)

\* C3: every agent whose insert returned true is found by query(x, y, 0),
\* whatever was inserted after it.
C3_RoundTrip ==
  pc = "build" =>
    \A i \in 0..Len(ret)-1 :
      ret[i + 1] => i \in Range(query(qt, px[i], py[i], 0))

\* the shape of node p: its count is the length of its storage; divided with
\* four children and nothing stored, or a leaf with at most QtCap points
nodeShape(t, p) ==
  /\ t[p].count = Len(t[p].idx) /\ t[p].count >= 0
  /\ IF t[p].divided
     THEN /\ t[p].count = 0
          /\ \A c \in 0..3 : Append(p, c) \in DOMAIN t
     ELSE /\ t[p].count <= QtCap
          /\ \A c \in 0..3 : Append(p, c) \notin DOMAIN t

\* C4: after every completed top-level insert each node is an undivided leaf
\* with at most QtCap points or a divided node with four children and empty
\* storage, and a divided node stays divided while the tree is being built.
C4_Shape ==
  [][ pc = "build" =>
        /\ \A p \in DOMAIN qt' : nodeShape(qt', p)
        /\ \A p \in DOMAIN qt : qt[p].divided => (p \in DOMAIN qt' /\ qt'[p].divided)
    ]_vars

\* the build is complete, a child of the root has itself been divided and
\* some leaf is full
C4_Witness ==
  /\ pc = "build" /\ Len(ret) = N
  /\ \E p \in DOMAIN qt : qt[p].divided /\ Len(p) >= 1
  /\ \E p \in DOMAIN qt : ~qt[p].divided /\ qt[p].count = QtCap

\* C5: a query returns exactly the indices stored in the leaves whose
\* rectangle meets the closed disc, each once, hence every stored agent
\* within distance r of the centre.
C5_Query ==
  (pc = "build" /\ qry # <<>>) =>
    LET cx == qry[1]
        cy == qry[2]
        r == qry[3]
        hit == {p \in leaves(qt) : rectDist2(qt[p], cx, cy) <= r * r}
    IN /\ Range(out) = UNION {stored(qt, p) : p \in hit}
       /\ \A a, b \in 1..Len(out) : a # b => out[a] # out[b]
       /\ \A i \in storedAll(qt) :
            dist2(px[i], py[i], cx, cy) <= r * r => i \in Range(out)

\* a query on a divided tree that returns some stored agents and not others,
\* one of them farther than r from the centre
C5_Witness ==
  /\ pc = "build" /\ qry # <<>> /\ Len(ret) = N
  /\ \E p \in DOMAIN qt : qt[p].divided
  /\ out # <<>>
  /\ storedAll(qt) \ Range(out) # {}
  /\ \E i \in Range(out) : dist2(px[i], py[i], qry[1], qry[2]) > qry[3] * qry[3]

\* C6: every position inside the world bounds is accepted and kept by the
\* build, also when more than QtCap agents share one position.
C6_BuildKeepsAll ==
  pc = "build" =>
    \A i \in 0..Len(ret)-1 :
      insideRoot(px[i], py[i]) => (ret[i + 1] /\ i \in storedAll(qt))

---------------------------------------------------------------------------
(* Simulation properties *)

speed2(i) == vx[i] * vx[i] + vy[i] * vy[i]

\* C1: between frames, from the initial state on, no agent is faster than
\* maxSpeed, in wrap and in bounce mode, with or without shocks.
C1_SpeedLimit ==
  pc = "idle" => \A i \in 0..N-1 : speed2(i) <= MaxSpeed * MaxSpeed

\* a frame has ended in bounce mode with an agent pushed by a shock, clamped
\* to maxSpeed and turned round at the right wall
C1_Witness ==
  /\ pc = "idle" /\ steps >= 1 /\ ~wrap /\ effects # <<>>
  /\ \E i \in 0..N-1 :
       /\ ax[i] > SCALE
       /\ px[i] = innerWidth /\ vx[i] < 0
       /\ speed2(i) > (MaxSpeed - 1) * (MaxSpeed - 1)

\* C2: when the quadtree has been rebuilt every agent lies inside the root
\* rectangle, every insert returned true and all N indices are in the tree.
C2_AllInside ==
  pc = "flock" =>
    /\ \A i \in 0..N-1 : insideRoot(px[i], py[i]) /\ ret[i + 1]
    /\ storedAll(qt) = 0..N-1

\* elapsed time still below the life of the effect
alive(E) == E.t < Life

\* C7: a shock starts with t = 0; the effects pass of a frame advances every
\* effect by dt, keeps exactly those whose elapsed time is still below the
\* life of 1.2 s and removes the others in that same pass.
C7_Lifecycle ==
  [][ /\ (pc = "idle" /\ Len(effects') > Len(effects)) =>
           (effects'[Len(effects')].t = 0 /\ SubSeq(effects', 1, Len(effects)) = effects)
      /\ pc = "shock" =>
           effects' = SelectSeq([e \in 1..Len(effects) |-> [effects[e] EXCEPT !.t = @ + dt]],
                                alive)
      /\ pc \in {"flock", "integrate"} => effects' = effects
    ]_vars

\* an effect has just been removed in the pass in which it reached 1.2 s
C7_Witness ==
  /\ pc = "integrate" /\ spliced # <<>>
  /\ \E k \in 1..Len(spliced) : spliced[k].t = Life
  /\ effects = <<>>

\* distances from the origin at which the force is compared
ProbeDists == {10 * SCALE, 25 * SCALE, 100 * SCALE}

\* magnitude of the force of effect E on an agent at distance d
forceMag(E, d) == Abs(shockF(E, d, radius(E)))

\* C8: at a fixed distance d inside the ring, the force of a shock is
\* strictly smaller in each pass than in the pass before.
C8_ForceDecreases ==
  [][ (pc = "shock" /\ Len(effects') = Len(effects)) =>
        \A e \in 1..Len(effects), d \in ProbeDists :
          (effects[e].t > 0 /\ effects'[e].t > effects[e].t /\ d < radius(effects[e]))
            => forceMag(effects'[e], d) < forceMag(effects[e], d)
    ]_vars

\* the agents at distance >= vision from agent i
farFrom(i) == {j \in 0..N-1 : j # i /\ ~(dist2(px[i], py[i], px[j], py[j]) < Vision * Vision)}

notFar(i, j) == j \notin farFrom(i)

\* C9: after the flocking pass the acceleration of an agent is what it would
\* be had the agents at distance >= vision not been among its candidates, and
\* it is zero when every other agent is that far away.
C9_FarAgentsIgnored ==
  pc = "shock" =>
    \A i \in 0..N-1 :
      LET tmp == query(qt, px[i], py[i], Vision)
          near == SelectSeq(tmp, LAMBDA j : notFar(i, j))
      IN /\ <<ax[i], ay[i]>> = flockFrom(i, near)
         /\ farFrom(i) = (0..N-1) \ {i} => (ax[i] = 0 /\ ay[i] = 0)

\* two agents only, farther apart than vision, each a candidate of the other
C9_Witness ==
  /\ pc = "shock" /\ N = 2
  /\ farFrom(0) = {1} /\ farFrom(1) = {0}
  /\ 1 \in Range(query(qt, px[0], py[0], Vision))
  /\ 0 \in Range(query(qt, px[1], py[1], Vision))
  /\ ax = [i \in 0..1 |-> 0] /\ ay = [i \in 0..1 |-> 0]

\* the agents of the index closer than sep to agent i, not on top of it
closeTo(i) ==
  {j \in storedAll(qt) \ {i} :
     /\ dist2(px[i], py[i], px[j], py[j]) > 0
     /\ dist2(px[i], py[i], px[j], py[j]) < Sep * Sep}

\* the separation force of agent i in this frame
sepOf(i) == sepForce(neighbourSums(i, query(qt, px[i], py[i], Vision), 1, noSums))

\* C10: when j is the one agent of the index closer than sep to i (and not
\* on top of it), the separation force of i is directed away from j.
C10_SeparationApart ==
  pc = "shock" =>
    \A i \in 0..N-1 :
      \A j \in closeTo(i) :
        closeTo(i) = {j} =>
          sepOf(i)[1] * (px[i] - px[j]) + sepOf(i)[2] * (py[i] - py[j]) > 0

\* in the first frame two agents are each other's only close neighbour and
\* both get a separation force
C10_Witness ==
  /\ pc = "shock" /\ steps = 1
  /\ \E i, j \in 0..N-1 :
       /\ closeTo(i) = {j} /\ closeTo(j) = {i}
       /\ sepOf(i) # <<0, 0>> /\ sepOf(j) # <<0, 0>>
       /\ ax[i] # 0

---------------------------------------------------------------------------
(* Boundary properties *)

\* the velocity of agent i after limit, before the boundary rule
limited(i) == limit(vx[i] + ax[i], vy[i] + ay[i], MaxSpeed)

\* C11: in wrap mode a coordinate that integration takes beyond bound + margin
\* becomes -margin, one taken below -margin becomes bound + margin, each axis
\* on its own; a coordinate within [-margin, bound + margin] is left where
\* integration put it, and the velocity is the limited velocity, untouched.
C11_WrapRule ==
  [][ (pc = "integrate" /\ wrap) =>
        \A i \in 0..N-1 :
          LET x1 == px[i] + limited(i)[1]
              y1 == py[i] + limited(i)[2]
          IN /\ vx'[i] = limited(i)[1] /\ vy'[i] = limited(i)[2]
             /\ x1 > innerWidth + WrapMargin => px'[i] = -WrapMargin
             /\ x1 < -WrapMargin => px'[i] = innerWidth + WrapMargin
             /\ (x1 >= -WrapMargin /\ x1 <= innerWidth + WrapMargin) => px'[i] = x1
             /\ y1 > innerHeight + WrapMargin => py'[i] = -WrapMargin
             /\ y1 < -WrapMargin => py'[i] = innerHeight + WrapMargin
             /\ (y1 >= -WrapMargin /\ y1 <= innerHeight + WrapMargin) => py'[i] = y1
    ]_vars

\* the agent has left through the bottom-left corner: it has just been put at
\* the right margin on x and at the top margin on y, still heading left and down
C11_Witness ==
  /\ pc = "idle" /\ wrap
  /\ px[0] = innerWidth + WrapMargin /\ vx[0] < 0
  /\ py[0] = -WrapMargin /\ vy[0] > 0

\* C12: in bounce mode a coordinate that integration takes below 0 or above
\* the bound is clamped into [0, bound] and the velocity component of that
\* axis is negated once; an agent that stays within the bounds keeps position
\* and velocity as integrated; after the step every position is in
\* [0, innerWidth] x [0, innerHeight].
C12_BounceRule ==
  [][ (pc = "integrate" /\ ~wrap) =>
        \A i \in 0..N-1 :
          LET x1 == px[i] + limited(i)[1]
              y1 == py[i] + limited(i)[2]
          IN /\ x1 < 0 => (px'[i] = 0 /\ vx'[i] = -limited(i)[1])
             /\ x1 > innerWidth => (px'[i] = innerWidth /\ vx'[i] = -limited(i)[1])
             /\ (x1 >= 0 /\ x1 <= innerWidth) => (px'[i] = x1 /\ vx'[i] = limited(i)[1])
             /\ y1 < 0 => (py'[i] = 0 /\ vy'[i] = -limited(i)[2])
             /\ y1 > innerHeight => (py'[i] = innerHeight /\ vy'[i] = -limited(i)[2])
             /\ (y1 >= 0 /\ y1 <= innerHeight) => (py'[i] = y1 /\ vy'[i] = limited(i)[2])
             /\ px'[i] >= 0 /\ px'[i] <= innerWidth
             /\ py'[i] >= 0 /\ py'[i] <= innerHeight
    ]_vars

\* the agent has hit the bottom-left corner: clamped on both axes and both
\* velocity components turned round
C12_Witness ==
  /\ pc = "idle" /\ ~wrap /\ steps = 1
  /\ px[0] = 0 /\ vx[0] > 0
  /\ py[0] = innerHeight /\ vy[0] < 0

---------------------------------------------------------------------------
(* Determinism *)

\* C13: the second load of the page, with the same seed, configuration and
\* world size and no pointer input, has after every step the positions and
\* velocities the first load had after the same number of steps, whatever
\* the frame times of the two loads.
C13_SameTrajectory ==
  (run = 2 /\ pc = "idle" /\ steps < Len(firstRun)) => snapshot = firstRun[steps + 1]

\* the second load has made as many steps as the first, with agents that
\* steer (a non-zero acceleration) and have moved from where they started
C13_Witness ==
  /\ run = 2 /\ pc = "idle" /\ steps = MaxDetSteps /\ Len(firstRun) = steps + 1
  /\ \E i \in 0..N-1 : ax[i] # 0 \/ ay[i] # 0
  /\ firstRun[1] # firstRun[steps + 1]

---------------------------------------------------------------------------
(* Order of the passes of a frame *)

\* what the flocking and the effects pass read
frozen == <<px, py, vx, vy, qt>>

\* C14: a frame goes rebuild, flocking (from zeroed accelerations), effects,
\* integration, in that order; the rebuild indexes the positions as they are
\* and moves nobody; the flocking and the effects pass change no position, no
\* velocity and not the quadtree; the flocking pass gives an agent with nobody
\* within vision the acceleration zero whatever the previous frame left
\* there; integration leaves the quadtree and the effects alone.
C14_PhaseOrder ==
  [][ /\ (pc = "idle" /\ pc' # "idle") =>
           /\ pc' = "flock"
           /\ <<px', py', vx', vy'>> = <<px, py, vx, vy>>
           /\ storedAll(qt') = {i \in 0..N-1 : insideRoot(px[i], py[i])}
      /\ pc = "flock" =>
           /\ pc' = "shock" /\ frozen' = frozen
           /\ \A i \in 0..N-1 :
                farFrom(i) = (0..N-1) \ {i} => (ax'[i] = 0 /\ ay'[i] = 0)
      /\ pc = "shock" => (pc' = "integrate" /\ frozen' = frozen)
      /\ pc = "integrate" => (pc' = "idle" /\ qt' = qt /\ effects' = effects)
    ]_vars

\* the second frame has rebuilt the index and is about to run the flocking
\* pass; an agent with nobody within vision still holds the acceleration a
\* shock gave it in the first frame
C14_Witness ==
  /\ pc = "flock" /\ steps = 2 /\ effects # <<>>
  /\ \E i \in 0..N-1 : farFrom(i) = (0..N-1) \ {i} /\ ax[i] # 0

---------------------------------------------------------------------------
(* Injection of shocks *)

\* C15: a shock is injected between frames only: while a frame is in
\* progress the list of effects gets no new entry; the injection itself
\* touches no agent and no acceleration and leaves the shock at t = 0; the
\* effects pass that first advances it runs against the quadtree built from
\* the positions of that same frame.
C15_InjectionBetweenFrames ==
  [][ /\ pc # "idle" => Len(effects') <= Len(effects)
      /\ Len(effects') > Len(effects) =>
           /\ pc' = "idle" /\ effects'[Len(effects')].t = 0
           /\ <<px', py', vx', vy', ax', ay', qt'>> = <<px, py, vx, vy, ax, ay, qt>>
      /\ pc = "shock" =>
           /\ qt = buildQuadtree(px, py).tree
           /\ \A e \in 1..Len(effects) : effects[e].t = 0 =>
                 \A k \in 1..Len(effects') : effects'[k].t >= dt
    ]_vars

\* the effects pass of the second frame has run with two shocks: one injected
\* before the first frame and one injected between the two frames, advanced
\* now for the first time
C15_Witness ==
  /\ pc = "integrate" /\ steps = 2 /\ Len(effects) = 2
  /\ effects[1].t > dt /\ effects[2].t = dt /\ dt > 0
  /\ \E i \in 0..N-1 : ax[i] # 0

---------------------------------------------------------------------------
(* Configuration *)

\* C16: a configuration with count <= 0 is rejected when the simulation is
\* constructed: no frame ever starts with it.
C16_BadCountRejected ==
  N <= 0 => (pc \in {"idle", "error"} /\ steps = 0)

---------------------------------------------------------------------------
(* Progress of a shock *)

\* C17: whenever the effects pass computes the progress of a shock and
\* applies its force, the elapsed time is within [0, life], so k is within
\* [0, 1] and the radius is at most 30 + 260.
C17_ProgressWithinLife ==
  [][ pc = "shock" =>
        \A e \in 1..Len(effects) :
          LET E == [effects[e] EXCEPT !.t = @ + dt]
          IN /\ E.t >= 0 /\ E.t <= Life
             /\ radius(E) <= (30 + 260) * SCALE
    ]_vars

---------------------------------------------------------------------------
(* Population *)

\* C18: the population is fixed: in every state of the all-pairs variant,
\* after any steps, clicks and reseeds in any spawn mode, the number of boids
\* is the configured count and every per-boid array is indexed by 0..count-1.
C18_PopulationFixed ==
  /\ boidsLength = N
  /\ \A arr \in {px, py, vx, vy, ax, ay} : DOMAIN arr = 0..N-1

\* a reseed into grid mode after a frame, with a count that needs a second,
\* partly filled row: the last boid stands in the second row
C18_Witness ==
  /\ pc = "idle" /\ steps >= 1 /\ spawn = "grid" /\ N > 8 /\ N < 16
  /\ boidsLength = N
  /\ px[N - 1] = (N - 8) * (innerWidth \div 9)
  /\ py[N - 1] = 2 * (innerHeight \div 3)
  /\ px[7] = 8 * (innerWidth \div 9) /\ py[7] = innerHeight \div 3

---------------------------------------------------------------------------
(* Edge cases of the steering sums *)

\* the boids other than i at a distance in (0, r) of boid i
othersWithin(i, r) ==
  { j \in (0..boidsLength-1) \ {i} :
      LET d2 == (px[j] - px[i]) * (px[j] - px[i]) + (py[j] - py[i]) * (py[j] - py[i])
      IN d2 > 0 /\ d2 < r * r }

\* C19: in a steering pass of the all-pairs variant, a boid with no
\* neighbour at a distance in (0, vision) receives nothing but the noise, and
\* a boid with no neighbour at a distance in (0, sep) receives no separation
\* term: its acceleration grows by the alignment and cohesion terms and the
\* noise only, also when it has neighbours within vision.
C19_EdgeCases ==
  [][ (pc = "idle" /\ pc' = "update") =>
        \A i \in 0..boidsLength-1 :
          LET t == steerTerms(i)
          IN /\ othersWithin(i, Vision) = {} =>
                  \E u \in APStreams :
                    /\ ax'[i] = ax[i] + noiseOf(u, i)[1]
                    /\ ay'[i] = ay[i] + noiseOf(u, i)[2]
             /\ othersWithin(i, Sep) = {} =>
                  \E u \in APStreams :
                    /\ ax'[i] = ax[i] + t.align[1] + t.cohesion[1] + noiseOf(u, i)[1]
                    /\ ay'[i] = ay[i] + t.align[2] + t.cohesion[2] + noiseOf(u, i)[2]
    ]_vars

---------------------------------------------------------------------------
(* Subdivision *)

\* the storage slots of the tree that hold index i
slotsOf(t, i) ==
  { s \in UNION { {p} \X (1..t[p].count) : p \in DOMAIN t } : t[s[1]].idx[s[2]] = i }

\* p is q or an ancestor of q
isPrefix(p, q) == Len(p) <= Len(q) /\ SubSeq(q, 1, Len(p)) = p

\* C20: after every top-level insert of the build, each index whose insert
\* returned true is stored exactly once and each other index not at all,
\* every stored index sits in a leaf whose half-open rectangle contains its
\* point, and every index held by a node that this insert subdivided is
\* stored in a leaf below that node.
C20_SubdivisionKeeps ==
  [][ pc = "build" =>
        /\ \A i \in 0..Len(ret')-1 :
             Cardinality(slotsOf(qt', i)) = IF ret'[i + 1] THEN 1 ELSE 0
        /\ \A q \in DOMAIN qt' : \A k \in 1..qt'[q].count :
             /\ ~qt'[q].divided
             /\ ~outsideNode(qt'[q], px[qt'[q].idx[k]], py[qt'[q].idx[k]])
        /\ \A p \in DOMAIN qt :
             (~qt[p].divided /\ qt'[p].divided) =>
               \A i \in stored(qt, p) :
                 \E q \in leaves(qt') : isPrefix(p, q) /\ i \in stored(qt', q)
    ]_vars

---------------------------------------------------------------------------
(* The effects pass *)

\* the list of effects with dt added to every entry
advanced == [e \in 1..Len(effects) |-> [effects[e] EXCEPT !.t = @ + dt]]

\* what one application of the advanced effect E adds to the acceleration of
\* agent i: nothing unless the query of E returns i
pushOn(E, i) ==
  LET r == radius(E)
      zero == [j \in 0..N-1 |-> 0]
      acc == applyShock(E, r, <<i>>, 1, zero, zero)
  IN IF i \in Range(query(qt, E.x, E.y, r)) THEN <<acc[1][i], acc[2][i]>> ELSE <<0, 0>>

RECURSIVE sumPushes(_, _, _)
\* the sum of pushOn over the entries e, e+1, ... of effs
sumPushes(effs, e, i) ==
  IF e > Len(effs) THEN <<0, 0>>
  ELSE LET a == pushOn(effs[e], i)
           b == sumPushes(effs, e + 1, i)
       IN <<a[1] + b[1], a[2] + b[2]>>

\* C21: the effects pass of a frame advances every effect of the list by dt
\* exactly once and applies it exactly once, whatever is removed during the
\* pass: the list afterwards is the advanced list without its expired
\* entries, in the same order; the removed entries are the expired ones,
\* each once; and every agent's acceleration has grown by the sum, over all
\* effects of the list, of one application of the advanced effect.
C21_PassVisitsEachOnce ==
  [][ pc = "shock" =>
        LET gone == SelectSeq(advanced, expired)
        IN /\ effects' = SelectSeq(advanced, alive)
           /\ Len(spliced') = Len(gone)
           /\ \A k \in 1..Len(gone) : spliced'[k] = gone[Len(gone) + 1 - k]
           /\ \A i \in 0..N-1 :
                LET s == sumPushes(advanced, 1, i)
                IN ax'[i] = ax[i] + s[1] /\ ay'[i] = ay[i] + s[2]
    ]_vars

\* a pass over three effects has removed the two oldest and kept the
\* youngest, advanced once, and has pushed an agent
C21_Witness ==
  /\ pc = "integrate" /\ Len(spliced) = 2 /\ Len(effects) = 1
  /\ effects[1].t = dt /\ dt > 0
  /\ \A k \in 1..2 : spliced[k].t >= Life
  /\ \E i \in 0..N-1 : ax[i] # 0 \/ ay[i] # 0

---------------------------------------------------------------------------
(* Reach of a shock *)

\* agent i is strictly inside the current radius of the advanced effect E
\* and not on its origin
reaches(E, i) ==
  LET d2 == dist2(px[i], py[i], E.x, E.y)
  IN d2 > 0 /\ d2 < radius(E) * radius(E)

\* C22: in an effects pass, an agent that no effect of the list reaches
\* (each effect has it at a distance of at least its current radius, or
\* exactly on its origin) keeps its acceleration; for each single effect, an
\* agent returned by the effect's query at a distance of at least the radius
\* or on the origin gets a force of exactly zero, and at least the radius
\* away no change of hue; any other agent gets a force along the line from
\* the origin, away from it for sign > 0 and toward it for sign < 0, not
\* zero in the inner half of the ring.
C22_OnlyInsideRadius ==
  [][ pc = "shock" =>
        \A i \in 0..N-1 :
          /\ (\A e \in 1..Len(advanced) : ~reaches(advanced[e], i)) =>
                (ax'[i] = ax[i] /\ ay'[i] = ay[i])
          /\ \A e \in 1..Len(advanced) :
               LET E == advanced[e]
                   r == radius(E)
                   dx == px[i] - E.x
                   dy == py[i] - E.y
                   d == hypot(dx, dy)
                   f == pushOn(E, i)
                   sg == IF E.sign > 0 THEN 1 ELSE -1
               IN IF ~reaches(E, i)
                  THEN /\ f = <<0, 0>>
                       /\ d >= r => colorBurst(d, r) = 0
                  ELSE /\ sg * f[1] * dx >= 0 /\ sg * f[2] * dy >= 0
                       /\ f[1] * dy = f[2] * dx \/ Abs(f[1] * dy - f[2] * dx) <= Abs(dx) + Abs(dy)
                       /\ 2 * d <= r => sg * (f[1] * dx + f[2] * dy) > 0
                       /\ (Len(advanced) = 1 /\ 2 * d <= r) =>
                             sg * ((ax'[i] - ax[i]) * dx + (ay'[i] - ay[i]) * dy) > 0
    ]_vars

\* after a pass with two shocks at one origin: an agent on that origin was
\* left alone, and another agent, returned by the query of the young shock
\* from outside its radius, was pushed away by the old shock only
C22_Witness ==
  /\ pc = "integrate" /\ Len(effects) = 2
  /\ effects[1].sign > 0 /\ effects[2].sign > 0
  /\ \E i \in 0..N-1 :
       /\ \A e \in 1..2 : px[i] = effects[e].x /\ py[i] = effects[e].y
       /\ ax[i] = 0 /\ ay[i] = 0
  /\ \E i \in 0..N-1 :
       /\ i \in Range(query(qt, effects[2].x, effects[2].y, radius(effects[2])))
       /\ dist2(px[i], py[i], effects[2].x, effects[2].y) >= radius(effects[2]) * radius(effects[2])
       /\ reaches(effects[1], i)
       /\ ax[i] = pushOn(effects[1], i)[1] /\ ax[i] > 0

---------------------------------------------------------------------------
(* The clamp of the frame time *)

\* C23: a shock is removed in its 38th pass at the earliest, whatever the
\* gaps between the frame timestamps are: while it is in the list its
\* elapsed time is at most 32 ms per pass it has been through.
C23_NotBefore38Steps ==
  /\ spliced # <<>> => steps >= 38
  /\ (effects # <<>> /\ pc \in {"integrate", "idle"}) => effects[1].t <= steps * DtClamp

\* a shock removed in its 38th pass, after frames that all came at least
\* 32 ms apart
C23_Witness ==
  /\ pc = "integrate" /\ steps = 38 /\ effects = <<>>
  /\ Len(spliced) = 1 /\ spliced[1].t = 38 * DtClamp

---------------------------------------------------------------------------
(* Removal of the shocks *)

\* C24: while frames keep coming with later timestamps, whenever the list
\* of effects is not empty between two frames a later pass removes a shock
\* from it (the oldest ones, so every shock has its turn), and if from some
\* point on nothing is injected the list becomes empty; the pass of a frame
\* whose timestamp is not later than that of the frame before removes
\* nothing.
C24_EventuallyRemoved ==
  /\ (effects # <<>> /\ pc = "idle") ~> (pc = "integrate" /\ spliced # <<>>)
  /\ <>[][Len(effects') <= Len(effects)]_vars => <>(effects = <<>>)
  /\ [][(pc = "shock" /\ dt <= 0) => (effects' = effects /\ spliced' = <<>>)]_vars

\* a pull injected by pointerup has been removed, by the pass of a 32 ms
\* frame that took it from 1.184 s past the end of its life
C24_Witness ==
  /\ pc = "integrate" /\ effects = <<>> /\ dt = DtClamp /\ ~mouseDown
  /\ Len(spliced) = 1 /\ spliced[1].t = Life - 16 + DtClamp /\ spliced[1].sign < 0

=============================================================================
